---- MODULE Spec2Model ----
(***************************************************************************)
(* Model of three programs of the breakpad tree:                           *)
(*   - minidump_dump   (src/processor/minidump_dump.cc)                    *)
(*   - dump_syms       (src/tools/linux/dump_syms/dump_syms.cc)            *)
(*   - LinuxCoreDumper as exercised by linux_core_dumper_unittest.cc       *)
(* Each program has its own specification: SpecDump, SpecSyms, SpecCore.   *)
(* The variables of the programs that a specification does not run keep    *)
(* their initial values.                                                   *)
(***************************************************************************)
EXTENDS Integers, Sequences, FiniteSets, TLC

VARIABLES
  \* ---- minidump_dump ----
  argc,         \* main's argc
  pc,           \* position in main / PrintMinidumpDump
  read_ok,      \* what Minidump::Read() returned: "none", "true", "false"
  stream,       \* per typed stream: "untried", "present" (non-null), "null"
  linux,        \* per Linux extension stream: "untried", "absent", "empty",
                \*   "readfail", "ok"
  errors,       \* the int errors of PrintMinidumpDump
  calls,        \* the calls made on the Minidump and its streams, and the
                \*   printf headers, in program order
  attempted,    \* the sections attempted, in program order
  alloc,        \* number of buffers LoadStreamContents has allocated
  exit_status,  \* -1 while running, then main's return value
  \* ---- dump_syms ----
  ds_argc,      \* main's argc
  ds_argv,      \* argv[1..argc-1], the file arguments
  ds_calls,     \* the WriteSymbolFile calls made: <<debug_file, text_file, ret>>
  ds_exit,      \* -1 while running, then main's return value
  \* ---- LinuxCoreDumper ----
  cd_ctor,      \* constructor arguments: pid, procfs_path, root_prefix
  cd_core,      \* the core file: the crashed process as CrashGenerator made it
  cd_inited,    \* Init() has returned true
  cd_threads,   \* threads_: thread ids in core-file order
  cd_infos,     \* thread_infos_: per thread, ppid and stack pointer
  cd_crash,     \* crash_signal_, crash_address_, crash_thread_, exception info
  cd_last,      \* the last call made on the dumper and what it returned
  \* ---- one DumpStringArray / DumpRawStream call, byte by byte ----
  sa_stream,    \* the call and the stream of the file it is about
  sa_pc,        \* "call", "loop", "done", or "crashed"
  sa_mem,       \* the buffer of LoadStreamContents and the accesses to it
  sa_run        \* locals and output: ret, contents, errors, cur, iter, out

dumpVars == <<argc, pc, read_ok, stream, linux, errors, calls, attempted,
              alloc, exit_status>>
symsVars == <<ds_argc, ds_argv, ds_calls, ds_exit>>
coreVars == <<cd_ctor, cd_core, cd_inited, cd_threads, cd_infos, cd_crash,
              cd_last>>
strVars == <<sa_stream, sa_pc, sa_mem, sa_run>>
vars == <<dumpVars, symsVars, coreVars, strVars>>

(***************************************************************************)
(* Bounds of the model.                                                    *)
(***************************************************************************)
MaxArgc == 4      \* argc ranges over 1..MaxArgc in both tools
MaxLen == 2       \* longest non-empty Linux extension stream tried
MaxBuf == 3       \* longest stream whose bytes are followed one by one

(***************************************************************************)
(*                           minidump_dump                                 *)
(***************************************************************************)

\* The typed streams PrintMinidumpDump asks the Minidump for, in code order.
TypedStreams == <<"ThreadList", "ModuleList", "MemoryList", "Exception",
                  "Assertion", "SystemInfo", "MiscInfo", "BreakpadInfo">>

\* The Linux extension streams, in the order PrintMinidumpDump dumps them.
LinuxStreams == <<"MD_LINUX_CMD_LINE", "MD_LINUX_ENVIRON",
                  "MD_LINUX_LSB_RELEASE", "MD_LINUX_PROC_STATUS",
                  "MD_LINUX_CPU_INFO">>

Range(s) == {s[i] : i \in 1..Len(s)}

\* Every section of the dump in program order: the header (minidump.Print()),
\* the typed streams, the Linux extension streams.
SectionOrder == <<"Header">> \o TypedStreams \o LinuxStreams

\* A typed stream whose null accessor result leaves errors alone (BPLOG(INFO)).
ErrorStreams_NoMiscInfo ==
  {"ThreadList", "ModuleList", "MemoryList", "SystemInfo"}

\* A typed stream set that also counts the breakpad info stream.
ErrorStreams_WithBreakpadInfo ==
  {"ThreadList", "ModuleList", "MemoryList", "SystemInfo", "MiscInfo",
   "BreakpadInfo"}

\* The typed streams whose null accessor result does ++errors (BPLOG(ERROR)).
ErrorStreams ==
  {"ThreadList", "ModuleList", "MemoryList", "SystemInfo", "MiscInfo"}

DumpInit ==
  /\ argc \in 1..MaxArgc
  /\ pc = "main"
  /\ read_ok = "none"
  /\ stream = [s \in Range(TypedStreams) |-> "untried"]
  /\ linux = [s \in Range(LinuxStreams) |-> "untried"]
  /\ errors = 0
  /\ calls = <<>>
  /\ attempted = <<>>
  /\ alloc = 0
  /\ exit_status = -1

\* main: the argument count check.
Main ==
  /\ pc = "main"
  /\ IF argc # 2
       THEN /\ pc' = "exit"
            /\ exit_status' = 1
       ELSE /\ pc' = "read"
            /\ exit_status' = exit_status
  /\ UNCHANGED <<argc, read_ok, stream, linux, errors, calls, attempted, alloc>>

\* PrintMinidumpDump where a failed Read() is not fatal.
ReadMinidump_Continue ==
  /\ pc = "read"
  /\ \E ok \in BOOLEAN :
       /\ read_ok' = IF ok THEN "true" ELSE "false"
       /\ calls' = calls \o <<"Minidump", "Read", "Print">>
       /\ attempted' = Append(attempted, "Header")
       /\ pc' = "ThreadList"
       /\ errors' = 0
       /\ exit_status' = exit_status
  /\ UNCHANGED <<argc, stream, linux, alloc>>

\* PrintMinidumpDump up to "int errors = 0": construct the Minidump, Read() it,
\* return false when that fails (main then returns 1), else Print() the header.
ReadMinidump ==
  /\ pc = "read"
  /\ \E ok \in BOOLEAN :
       /\ read_ok' = IF ok THEN "true" ELSE "false"
       /\ IF ~ok
            THEN /\ calls' = calls \o <<"Minidump", "Read">>
                 /\ attempted' = attempted
                 /\ pc' = "exit"
                 /\ exit_status' = 1
            ELSE /\ calls' = calls \o <<"Minidump", "Read", "Print">>
                 /\ attempted' = Append(attempted, "Header")
                 /\ pc' = "ThreadList"
                 /\ exit_status' = exit_status
       /\ errors' = 0
  /\ UNCHANGED <<argc, stream, linux, alloc>>

\* One typed-stream block: call the accessor; null does ++errors for the
\* streams of ErrorStreams, non-null prints the stream.
TypedSection(s, next) ==
  /\ pc = s
  /\ \E nonnull \in BOOLEAN :
       /\ stream' = [stream EXCEPT ![s] = IF nonnull THEN "present" ELSE "null"]
       /\ errors' = IF ~nonnull /\ s \in ErrorStreams THEN errors + 1 ELSE errors
       /\ calls' = IF nonnull
                     THEN calls \o <<"Get" \o s, s \o "::Print">>
                     ELSE calls \o <<"Get" \o s>>
  /\ attempted' = Append(attempted, s)
  /\ pc' = next
  /\ UNCHANGED <<argc, read_ok, linux, alloc, exit_status>>

\* The thread list block with a return on a null thread list.
DumpThreadList_EarlyReturn ==
  /\ pc = "ThreadList"
  /\ \E nonnull \in BOOLEAN :
       /\ stream' = [stream EXCEPT !["ThreadList"] =
                       IF nonnull THEN "present" ELSE "null"]
       /\ errors' = IF ~nonnull THEN errors + 1 ELSE errors
       /\ calls' = IF nonnull
                     THEN calls \o <<"GetThreadList", "ThreadList::Print">>
                     ELSE calls \o <<"GetThreadList">>
       /\ pc' = IF nonnull THEN "ModuleList" ELSE "exit"
       /\ exit_status' = IF nonnull THEN exit_status ELSE 1
  /\ attempted' = Append(attempted, "ThreadList")
  /\ UNCHANGED <<argc, read_ok, linux, alloc>>

DumpThreadList == TypedSection("ThreadList", "ModuleList")
DumpModuleList == TypedSection("ModuleList", "MemoryList")
DumpMemoryList == TypedSection("MemoryList", "Exception")
DumpException == TypedSection("Exception", "Assertion")
DumpAssertion == TypedSection("Assertion", "SystemInfo")
DumpSystemInfo == TypedSection("SystemInfo", "MiscInfo")
DumpMiscInfo == TypedSection("MiscInfo", "BreakpadInfo")
DumpBreakpadInfo == TypedSection("BreakpadInfo", "MD_LINUX_CMD_LINE")

\* LoadStreamContents(minidump, stream_type, &length, &contents, errors):
\* found and len are what SeekToStreamType reports, bytes_ok what ReadBytes
\* returns, errs the value of the int that errors points to.  "++errors"
\* advances the local pointer errors, not the int, so errs comes back as it was.
\* LoadStreamContents taking its buffer before it looks at the stream.
LoadStreamContents_AllocFirst(found, len, bytes_ok, errs) ==
  [ret |-> found /\ len # 0 /\ bytes_ok,
   outcome |-> IF ~found THEN "absent" ELSE IF len = 0 THEN "empty"
               ELSE IF bytes_ok THEN "ok" ELSE "readfail",
   allocated |-> TRUE,
   wrote_contents |-> found /\ len # 0 /\ bytes_ok,
   errors |-> errs,
   calls |-> IF found /\ len # 0 THEN <<"SeekToStreamType", "ReadBytes">>
             ELSE <<"SeekToStreamType">>]

LoadStreamContents(found, len, bytes_ok, errs) ==
  IF ~found \/ len = 0
    THEN [ret |-> FALSE, outcome |-> IF found THEN "empty" ELSE "absent",
          allocated |-> FALSE, wrote_contents |-> FALSE,
          errors |-> errs, calls |-> <<"SeekToStreamType">>]
    ELSE IF ~bytes_ok
      THEN [ret |-> FALSE, outcome |-> "readfail",
            allocated |-> TRUE, wrote_contents |-> FALSE,
            errors |-> errs, calls |-> <<"SeekToStreamType", "ReadBytes">>]
      ELSE [ret |-> TRUE, outcome |-> "ok",
            allocated |-> TRUE, wrote_contents |-> TRUE,
            errors |-> errs, calls |-> <<"SeekToStreamType", "ReadBytes">>]

\* DumpStringArray / DumpRawStream: load the stream, return when that fails,
\* else print the header line with the stream name and the contents.
LinuxSection(s, kind, next) ==
  /\ pc = s
  /\ \E found \in BOOLEAN, len \in 0..MaxLen, bytes_ok \in BOOLEAN :
       LET r == LoadStreamContents(found, len, bytes_ok, errors) IN
         /\ linux' = [linux EXCEPT ![s] = r.outcome]
         /\ errors' = r.errors
         /\ alloc' = IF r.allocated THEN alloc + 1 ELSE alloc
         /\ calls' = IF r.ret
                       THEN calls \o r.calls \o <<"printf " \o kind \o " " \o s>>
                       ELSE calls \o r.calls
  /\ attempted' = Append(attempted, s)
  /\ pc' = next
  /\ UNCHANGED <<argc, read_ok, stream, exit_status>>

DumpStringArray(s, next) == LinuxSection(s, "String array stream", next)
DumpRawStream(s, next) == LinuxSection(s, "Raw stream", next)

DumpCmdLine == DumpStringArray("MD_LINUX_CMD_LINE", "MD_LINUX_ENVIRON")
DumpEnviron == DumpStringArray("MD_LINUX_ENVIRON", "MD_LINUX_LSB_RELEASE")
DumpLsbRelease == DumpRawStream("MD_LINUX_LSB_RELEASE", "MD_LINUX_PROC_STATUS")
DumpProcStatus == DumpRawStream("MD_LINUX_PROC_STATUS", "MD_LINUX_CPU_INFO")
DumpCpuInfo == DumpRawStream("MD_LINUX_CPU_INFO", "return")

\* "return errors == 0;" and main's "return PrintMinidumpDump(argv[1]) ? 0 : 1;"
Return ==
  /\ pc = "return"
  /\ exit_status' = IF errors = 0 THEN 0 ELSE 1
  /\ pc' = "exit"
  /\ UNCHANGED <<argc, read_ok, stream, linux, errors, calls, attempted, alloc>>

(***************************************************************************)
(*                              dump_syms                                  *)
(***************************************************************************)

\* File names the command line can carry.
Files == {"app", "app.debug", "libc.so", "libc.so.debug"}

RECURSIVE SeqsUpTo(_, _)
\* All sequences over S of length at most n.
SeqsUpTo(S, n) ==
  IF n = 0 THEN {<<>>}
  ELSE LET shorter == SeqsUpTo(S, n - 1) IN
         shorter \cup {Append(q, x) : q \in {t \in shorter : Len(t) = n - 1},
                                      x \in S}

SymsInit ==
  /\ ds_argv \in SeqsUpTo(Files, MaxArgc - 1)
  /\ ds_argc = Len(ds_argv) + 1
  /\ ds_calls = <<>>
  /\ ds_exit = -1

\* main of dump_syms where the text file is always argv[1].
SymsTextFile_AlwaysFirst(n, argv) == argv[1]

\* "const char *text_file = argc == 3 ? argv[2] : argv[1];" (argv here holds
\* the file arguments only, so C's argv[k] is argv[k] of the model).
SymsTextFile(n, argv) == IF n = 3 THEN argv[2] ELSE argv[1]

\* main of dump_syms accepting any argument count of at least 2.
SymsUsageError_AtLeastTwo(n) == n < 2

\* "if (argc != 2 && argc != 3)": the usage error.
SymsUsageError(n) == n # 2 /\ n # 3

\* main of dump_syms, whole: usage check, WriteSymbolFile, exit status.
SymsMain ==
  /\ ds_exit = -1
  /\ IF SymsUsageError(ds_argc)
       THEN /\ ds_exit' = 1
            /\ ds_calls' = ds_calls
       ELSE \E wrote \in BOOLEAN :
              /\ ds_calls' = Append(ds_calls,
                                    [debug_file |-> ds_argv[1],
                                     text_file |-> SymsTextFile(ds_argc, ds_argv),
                                     ret |-> wrote])
              /\ ds_exit' = IF ~wrote THEN 1 ELSE 0
  /\ UNCHANGED <<ds_argc, ds_argv>>

(***************************************************************************)
(*                          LinuxCoreDumper                                *)
(* The dumper's methods (linux_core_dumper.cc) are modelled from their      *)
(* contract and from what linux_core_dumper_unittest.cc passes to them and *)
(* expects back.                                                           *)
(***************************************************************************)

NAME_MAX == 255
PATH_MAX == 4096
SIGABRT == 6
SIGSYS == 31

MaxThreads == 3   \* the crashed process has 1..MaxThreads generator threads
MaxExtra == 1     \* and 0..MaxExtra extra threads of the runtime

ParentPid == 50   \* getpid() of the process that runs CreateChildCrash
ChildPid == 100   \* child_pid, the crashed process

\* A char* argument: NULL, or a pointer to a NUL-terminated string.
NullPtr == [null |-> TRUE, str |-> ""]
Ptr(str) == [null |-> FALSE, str |-> str]

RECURSIVE Repeat(_, _)
\* memset(buf, c, n); buf[n] = '\0'
Repeat(c, n) ==
  IF n = 0 THEN ""
  ELSE IF n % 2 = 0 THEN LET h == Repeat(c, n \div 2) IN h \o h
  ELSE c \o Repeat(c, n - 1)

\* The procfs copy directories tried ("/procfs_copy" is the unit test's).
ProcfsPaths == {"/procfs_copy", "/tmp", Repeat("p", NAME_MAX - 6)}

\* The root prefixes tried ("/mnt/root" is the unit test's; "" the default).
RootPrefixes == {"", "/mnt/root", "/" \o Repeat("r", PATH_MAX - 12)}

\* The mapping names tried; MappingInfo::name is a char[NAME_MAX].
MappingNames == {"", "/usr/lib/libc.so", "/" \o Repeat("m", NAME_MAX - 2)}

\* The unit test's long_node for a given procfs path: 'a' repeated
\* NAME_MAX - strlen(procfs_path) - 1 times.
LongNode(procfs_path) == Repeat("a", NAME_MAX - Len(procfs_path) - 1)

\* The node arguments tried: the unit test's, and the longest one that fits.
Nodes(procfs_path) ==
  {NullPtr, Ptr(""), Ptr("maps"), Ptr("status"),
   Ptr(LongNode(procfs_path)),
   Ptr(Repeat("a", NAME_MAX - Len(procfs_path) - 2))}

\* Thread id of the generator's thread with index i (0 is the main thread).
ThreadId(i) == ChildPid + i

\* Stack of the thread with id tid in the crashed process: [lo, hi).
StackOf(tid) == [lo |-> tid * 16, hi |-> tid * 16 + 8]

\* The core file the kernel writes for a process of n generator threads and
\* extra runtime threads, where the thread with index t raised signal sig: one
\* NT_PRSTATUS per thread, the crashing thread's first, and one mapping per
\* thread stack.  details tells whether the core carries the signal's details
\* (si_call_addr, si_syscall, si_arch) in a form the dumper reads: the build
\* needs si_syscall, and Android cores are seen without them.
CoreFile(valid, n, t, sig, extra, details) ==
  LET others == [i \in 1..(n + extra - 1) |->
                   IF i - 1 < t THEN ThreadId(i - 1) ELSE ThreadId(i)]
      order == <<ThreadId(t)>> \o others
  IN [valid |-> valid,
      n_threads |-> n,
      crash_index |-> t,
      signal |-> sig,
      siginfo_details |-> details,
      si_call_addr |-> StackOf(ThreadId(t)).hi,
      extra |-> extra,
      prstatus |-> [k \in 1..Len(order) |->
                      [pid |-> order[k], ppid |-> ParentPid,
                       sp |-> StackOf(order[k]).lo + 4]],
      mappings |-> {StackOf(order[k]) : k \in 1..Len(order)}]

CoreInit ==
  /\ \E pp \in ProcfsPaths, rp \in RootPrefixes :
       cd_ctor = [pid |-> ChildPid, procfs_path |-> pp, root_prefix |-> rp]
  /\ \E valid \in BOOLEAN, n \in 1..MaxThreads, sig \in {SIGABRT, SIGSYS},
        extra \in 0..MaxExtra :
       \E t \in 0..(n - 1),
          details \in (IF sig = SIGSYS THEN BOOLEAN ELSE {TRUE}) :
         cd_core = CoreFile(valid, n, t, sig, extra, details)
  /\ cd_inited = FALSE
  /\ cd_threads = <<>>
  /\ cd_infos = <<>>
  /\ cd_crash = [signal |-> 0, address |-> 0, thread |-> 0, exception_info |-> <<>>]
  /\ cd_last = [op |-> "constructed", ret |-> TRUE, out |-> <<>>]

\* BuildProcPath that lets a name of exactly NAME_MAX characters through.
BuildProcPath_OffByOne(procfs_path, path, pid, node) ==
  IF path.null \/ node.null \/ Len(node.str) = 0
       \/ Len(procfs_path) + 1 + Len(node.str) > NAME_MAX
    THEN [ret |-> FALSE, path |-> path]
    ELSE [ret |-> TRUE, path |-> Ptr(procfs_path \o "/" \o node.str)]

\* LinuxCoreDumper::BuildProcPath(path, pid, node) for a dumper constructed
\* with procfs_path.  The result carries what path points to afterwards.
BuildProcPath(procfs_path, path, pid, node) ==
  IF path.null \/ node.null
    THEN [ret |-> FALSE, path |-> path]
  ELSE IF Len(node.str) = 0
    THEN [ret |-> FALSE, path |-> path]
  ELSE IF Len(procfs_path) + 1 + Len(node.str) >= NAME_MAX
    THEN [ret |-> FALSE, path |-> path]
  ELSE [ret |-> TRUE, path |-> Ptr(procfs_path \o "/" \o node.str)]

\* GetMappingAbsolutePath that puts a '/' between prefix and name.
GetMappingAbsolutePath_Slash(root_prefix, name) ==
  LET full == root_prefix \o "/" \o name IN
    IF Len(full) < PATH_MAX
      THEN [ret |-> TRUE, path |-> full]
      ELSE [ret |-> FALSE, path |-> SubSeq(full, 1, PATH_MAX - 1)]

\* LinuxCoreDumper::GetMappingAbsolutePath(mapping, path) with path a
\* char[PATH_MAX]: the root prefix followed by the mapping's name, cut to what
\* the buffer holds.
GetMappingAbsolutePath(root_prefix, name) ==
  LET full == root_prefix \o name IN
    IF Len(full) < PATH_MAX
      THEN [ret |-> TRUE, path |-> full]
      ELSE [ret |-> FALSE, path |-> SubSeq(full, 1, PATH_MAX - 1)]

\* The NT_SIGINFO note's part of EnumerateThreads: crash_address_ is set only
\* for SIGSYS, from si_call_addr, when the core carries the signal's details.
CrashAddress(core) ==
  IF core.signal = SIGSYS /\ core.siginfo_details THEN core.si_call_addr ELSE 0

\* crash_exception_info_: for SIGSYS the two values si_syscall and si_arch,
\* when the core carries them.
CrashExceptionInfo(core) ==
  IF core.signal = SIGSYS /\ core.siginfo_details
    THEN <<"si_syscall", "si_arch">>
    ELSE <<>>

\* EnumerateThreads taking the last NT_PRSTATUS as the crashing thread's.
EnumerateThreads_LastIsCrash(core) ==
  [threads |-> [k \in 1..Len(core.prstatus) |-> core.prstatus[k].pid],
   infos |-> [k \in 1..Len(core.prstatus) |->
                [ppid |-> core.prstatus[k].ppid,
                 stack_pointer |-> core.prstatus[k].sp]],
   crash |-> [signal |-> core.signal,
              address |-> CrashAddress(core),
              thread |-> core.prstatus[Len(core.prstatus)].pid,
              exception_info |-> CrashExceptionInfo(core)]]

\* LinuxCoreDumper::EnumerateThreads: one thread per NT_PRSTATUS note in core
\* order; the first note is the crashing thread's and carries the signal.
EnumerateThreads(core) ==
  [threads |-> [k \in 1..Len(core.prstatus) |-> core.prstatus[k].pid],
   infos |-> [k \in 1..Len(core.prstatus) |->
                [ppid |-> core.prstatus[k].ppid,
                 stack_pointer |-> core.prstatus[k].sp]],
   crash |-> [signal |-> core.signal,
              address |-> CrashAddress(core),
              thread |-> core.prstatus[1].pid,
              exception_info |-> CrashExceptionInfo(core)]]

\* LinuxDumper::GetThreadInfoByIndex(index, info), index counted from 0.
GetThreadInfoByIndex(infos, index) ==
  IF index >= Len(infos)
    THEN [ret |-> FALSE, info |-> [ppid |-> -1, stack_pointer |-> 0]]
    ELSE [ret |-> TRUE, info |-> infos[index + 1]]

\* LinuxDumper::GetStackInfo(stack, stack_len, stack_pointer): succeeds when a
\* mapping of the core holds the stack pointer.
GetStackInfo(core, stack_pointer) ==
  \E m \in core.mappings : m.lo <= stack_pointer /\ stack_pointer < m.hi

\* dumper.Init(): fails on an unusable core, else enumerates the threads.
CallInit ==
  /\ ~cd_inited
  /\ IF ~cd_core.valid
       THEN /\ cd_last' = [op |-> "Init", ret |-> FALSE, out |-> <<>>]
            /\ UNCHANGED <<cd_inited, cd_threads, cd_infos, cd_crash>>
       ELSE LET e == EnumerateThreads(cd_core) IN
              /\ cd_inited' = TRUE
              /\ cd_threads' = e.threads
              /\ cd_infos' = e.infos
              /\ cd_crash' = e.crash
              /\ cd_last' = [op |-> "Init", ret |-> TRUE, out |-> <<>>]
  /\ UNCHANGED <<cd_ctor, cd_core>>

\* ThreadsSuspend that drops the thread list.
ThreadsSuspend_Clears ==
  /\ cd_last' = [op |-> "ThreadsSuspend", ret |-> TRUE, out |-> <<>>]
  /\ cd_threads' = <<>>
  /\ UNCHANGED <<cd_ctor, cd_core, cd_inited, cd_infos, cd_crash>>

\* dumper.ThreadsSuspend()
CallThreadsSuspend ==
  /\ cd_last' = [op |-> "ThreadsSuspend", ret |-> TRUE, out |-> <<>>]
  /\ UNCHANGED <<cd_ctor, cd_core, cd_inited, cd_threads, cd_infos, cd_crash>>

\* dumper.ThreadsResume()
CallThreadsResume ==
  /\ cd_last' = [op |-> "ThreadsResume", ret |-> TRUE, out |-> <<>>]
  /\ UNCHANGED <<cd_ctor, cd_core, cd_inited, cd_threads, cd_infos, cd_crash>>

\* dumper.IsPostMortem()
CallIsPostMortem ==
  /\ cd_last' = [op |-> "IsPostMortem", ret |-> TRUE, out |-> <<>>]
  /\ UNCHANGED <<cd_ctor, cd_core, cd_inited, cd_threads, cd_infos, cd_crash>>

\* dumper.BuildProcPath(path, pid, node): path is NULL or a buffer holding ""
CallBuildProcPath ==
  /\ \E path \in {NullPtr, Ptr("")}, pid \in {ChildPid, ParentPid},
        node \in Nodes(cd_ctor.procfs_path) :
       LET r == BuildProcPath(cd_ctor.procfs_path, path, pid, node) IN
         cd_last' = [op |-> "BuildProcPath", ret |-> r.ret,
                     out |-> [path_in |-> path, pid |-> pid, node |-> node,
                              path |-> r.path]]
  /\ UNCHANGED <<cd_ctor, cd_core, cd_inited, cd_threads, cd_infos, cd_crash>>

\* dumper.GetMappingAbsolutePath(mapping, path)
CallGetMappingAbsolutePath ==
  /\ \E name \in MappingNames :
       LET r == GetMappingAbsolutePath(cd_ctor.root_prefix, name) IN
         cd_last' = [op |-> "GetMappingAbsolutePath", ret |-> r.ret,
                     out |-> [name |-> name, path |-> r.path]]
  /\ UNCHANGED <<cd_ctor, cd_core, cd_inited, cd_threads, cd_infos, cd_crash>>

\* The unit test's loop body: GetThreadInfoByIndex(i, &info), then
\* GetStackInfo(&stack, &stack_len, info.stack_pointer).
CallGetThreadInfoByIndex ==
  /\ cd_inited
  /\ \E i \in 0..(MaxThreads + MaxExtra) :
       LET r == GetThreadInfoByIndex(cd_infos, i) IN
         cd_last' = [op |-> "GetThreadInfoByIndex", ret |-> r.ret,
                     out |-> [index |-> i, info |-> r.info,
                              stack_ok |-> r.ret /\ GetStackInfo(cd_core,
                                                     r.info.stack_pointer)]]
  /\ UNCHANGED <<cd_ctor, cd_core, cd_inited, cd_threads, cd_infos, cd_crash>>

(***************************************************************************)
(*        DumpStringArray / DumpRawStream on the bytes of a stream         *)
(***************************************************************************)

\* u_int32_t values are pairs of 16-bit halves.
U16 == 65536
U32(n) == [hi |-> n \div U16, lo |-> n % U16]
U32_MAX == [hi |-> U16 - 1, lo |-> U16 - 1]

\* v + 1 in u_int32_t arithmetic.
U32Add1(v) ==
  IF v.lo + 1 < U16 THEN [hi |-> v.hi, lo |-> v.lo + 1]
  ELSE [hi |-> (v.hi + 1) % U16, lo |-> 0]

\* a < b on u_int32_t values.
U32Less(a, b) == a.hi < b.hi \/ (a.hi = b.hi /\ a.lo < b.lo)

\* The chars tried: NUL and 'a'.
Chars == {0, 97}

\* A char of a new[] buffer that nothing has stored to yet.
Indeterminate == 256

\* The streams tried.  SeekToStreamType reports found and length; data is what
\* the file holds at the stream's offset, at most length bytes; full tells
\* that the file holds all length bytes (for a length of 2^32-1, of which data
\* then lists none).
Streams ==
  {[found |-> FALSE, length |-> U32(0), data |-> <<>>, full |-> FALSE]}
  \cup {[found |-> TRUE, length |-> U32(Len(d) + missing), data |-> d,
         full |-> missing = 0] :
          d \in SeqsUpTo(Chars, MaxBuf), missing \in 0..MaxBuf}
  \cup {[found |-> TRUE, length |-> U32_MAX, data |-> d, full |-> FALSE] :
          d \in SeqsUpTo(Chars, MaxBuf)}
  \cup {[found |-> TRUE, length |-> U32_MAX, data |-> <<>>, full |-> TRUE]}

StrInit ==
  /\ \E kind \in {"DumpStringArray", "DumpRawStream"}, st \in Streams :
       /\ U32Less(st.length, U32(MaxBuf + 1)) \/ st.length = U32_MAX
       /\ sa_stream = [kind |-> kind, found |-> st.found, length |-> st.length,
                       data |-> st.data, full |-> st.full]
  /\ sa_pc = "call"
  /\ sa_mem = [allocated |-> FALSE, size |-> U32(0), bytes |-> <<>>,
               oob |-> FALSE]
  /\ \E errs \in 0..1 :
       sa_run = [ret |-> FALSE, contents |-> FALSE, errors |-> errs,
                 errors_in |-> errs, cur |-> 0, iter |-> 0, out |-> <<>>]

RECURSIVE Strlen(_, _)
\* strlen(&buffer[i]) within the buffer's bytes: the chars before the first
\* NUL at or after index i (0-based).
Strlen(bytes, i) ==
  IF i >= Len(bytes) \/ bytes[i + 1] = 0 THEN 0 ELSE 1 + Strlen(bytes, i + 1)

\* Whether the string at index i ends inside the buffer and reads only chars
\* that were stored.
Terminated(bytes, i) ==
  /\ i + Strlen(bytes, i) < Len(bytes)
  /\ \A k \in (i + 1)..(i + Strlen(bytes, i)) : bytes[k] # Indeterminate

\* What printf("%s") prints for &buffer[i].
CStr(bytes, i) == SubSeq(bytes, i + 1, i + Strlen(bytes, i))

\* "new char[*length + 1]": the sum is a u_int32_t.
BufferSize(length) == U32Add1(length)

\* LoadStreamContents on the bytes of stream st, errs being the caller's count:
\* what it returns, the buffer it leaves, whether *contents was set, the count
\* afterwards, and whether a store went outside the buffer (overrun: by
\* ReadBytes; oob: by ReadBytes or by the terminator).
LoadStreamBytes(st, errs) ==
  IF ~st.found \/ st.length = U32(0)
    THEN [ret |-> FALSE, allocated |-> FALSE, size |-> U32(0), bytes |-> <<>>,
          contents |-> FALSE, errors |-> errs, overrun |-> FALSE,
          oob |-> FALSE]
  ELSE
    LET size == BufferSize(st.length)
        stored == IF st.full THEN st.length ELSE U32(Len(st.data))
        overrun == U32Less(size, stored)
        cells == IF size.hi = 0 THEN size.lo ELSE 0
        after_read == [k \in 1..cells |->
                         IF k <= Len(st.data) THEN st.data[k]
                         ELSE Indeterminate]
    IN IF ~st.full
         THEN \* ReadBytes failed: "++errors" moves the pointer, not the count
              [ret |-> FALSE, allocated |-> TRUE, size |-> size,
               bytes |-> after_read, contents |-> FALSE, errors |-> errs,
               overrun |-> overrun, oob |-> overrun]
         ELSE [ret |-> TRUE, allocated |-> TRUE, size |-> size,
               bytes |-> [k \in 1..cells |->
                            IF k = Len(st.data) + 1 THEN 0 ELSE after_read[k]],
               contents |-> TRUE, errors |-> errs,
               overrun |-> overrun,
               oob |-> overrun \/ ~U32Less(st.length, size)]

\* The call up to the loop: LoadStreamContents, the return when it fails, the
\* header line; DumpRawStream also prints the contents and is done.  A store
\* outside the buffer is undefined: the process dies of it, or, when only the
\* bytes of a short file overran a zero-byte buffer, may go on to the return.
StrLoad ==
  /\ sa_pc = "call"
  /\ LET r == LoadStreamBytes(sa_stream, sa_run.errors) IN
       /\ sa_mem' = [allocated |-> r.allocated, size |-> r.size,
                     bytes |-> r.bytes,
                     oob |-> r.oob \/ (r.ret /\ sa_stream.kind = "DumpRawStream"
                                       /\ ~Terminated(r.bytes, 0))]
       /\ IF r.oob
            THEN /\ sa_pc' \in {"crashed"} \cup (IF r.ret THEN {} ELSE {"done"})
                 /\ sa_run' = [sa_run EXCEPT !.ret = FALSE, !.errors = r.errors]
            ELSE IF ~r.ret
              THEN /\ sa_pc' = "done"
                   /\ sa_run' = [sa_run EXCEPT !.ret = FALSE,
                                               !.errors = r.errors]
              ELSE IF sa_stream.kind = "DumpStringArray"
                THEN /\ sa_pc' = "loop"
                     /\ sa_run' = [sa_run EXCEPT
                                     !.ret = TRUE, !.contents = r.contents,
                                     !.errors = r.errors,
                                     !.out = <<"String array stream">>]
                ELSE /\ sa_pc' = "done"
                     /\ sa_run' = [sa_run EXCEPT
                                     !.ret = TRUE, !.contents = r.contents,
                                     !.errors = r.errors,
                                     !.out = <<"Raw stream", CStr(r.bytes, 0)>>]
  /\ UNCHANGED sa_stream

\* The cursor after a string, without stepping over its NUL.
NextString_NoSkip(bytes, cur) == cur + Strlen(bytes, cur)

\* "current_string += strlen(current_string) + 1;"
NextString(bytes, cur) == cur + Strlen(bytes, cur) + 1

\* One turn of "while (current_string - &buffer[0] < length)": print the
\* string at the cursor and move past it, or leave the loop and print "\n".
\* The guard on iter only keeps a loop that makes no progress finite.
StrLoopStep ==
  /\ sa_pc = "loop"
  /\ sa_run.iter <= MaxBuf + 1
  /\ IF U32Less(U32(sa_run.cur), sa_stream.length)
       THEN /\ sa_run' = [sa_run EXCEPT
                            !.out = Append(@, CStr(sa_mem.bytes, sa_run.cur)),
                            !.iter = @ + 1,
                            !.cur = NextString(sa_mem.bytes, sa_run.cur)]
            /\ sa_mem' = [sa_mem EXCEPT
                            !.oob = @ \/ ~Terminated(sa_mem.bytes, sa_run.cur)]
            /\ sa_pc' = "loop"
       ELSE /\ sa_run' = [sa_run EXCEPT !.out = Append(@, <<>>)]
            /\ sa_pc' = "done"
            /\ UNCHANGED sa_mem
  /\ UNCHANGED sa_stream

(***************************************************************************)
(*                         Specifications                                  *)
(***************************************************************************)

DumpIdle ==
  /\ argc = 1
  /\ pc = "idle"
  /\ read_ok = "none"
  /\ stream = [s \in Range(TypedStreams) |-> "untried"]
  /\ linux = [s \in Range(LinuxStreams) |-> "untried"]
  /\ errors = 0
  /\ calls = <<>>
  /\ attempted = <<>>
  /\ alloc = 0
  /\ exit_status = -1

SymsIdle ==
  /\ ds_argc = 1
  /\ ds_argv = <<>>
  /\ ds_calls = <<>>
  /\ ds_exit = -2

CoreIdle ==
  /\ cd_ctor = [pid |-> 0, procfs_path |-> "", root_prefix |-> ""]
  /\ cd_core = [valid |-> FALSE]
  /\ cd_inited = FALSE
  /\ cd_threads = <<>>
  /\ cd_infos = <<>>
  /\ cd_crash = [signal |-> 0, address |-> 0, thread |-> 0, exception_info |-> <<>>]
  /\ cd_last = [op |-> "idle", ret |-> TRUE, out |-> <<>>]

StrIdle ==
  /\ sa_stream = [kind |-> "none", found |-> FALSE, length |-> U32(0),
                  data |-> <<>>, full |-> FALSE]
  /\ sa_pc = "idle"
  /\ sa_mem = [allocated |-> FALSE, size |-> U32(0), bytes |-> <<>>,
               oob |-> FALSE]
  /\ sa_run = [ret |-> FALSE, contents |-> FALSE, errors |-> 0,
               errors_in |-> 0, cur |-> 0, iter |-> 0, out |-> <<>>]

DumpOnly == UNCHANGED <<symsVars, coreVars, strVars>>
SymsOnly == UNCHANGED <<dumpVars, coreVars, strVars>>
CoreOnly == UNCHANGED <<dumpVars, symsVars, strVars>>
StrOnly == UNCHANGED <<dumpVars, symsVars, coreVars>>

InitDump == DumpInit /\ SymsIdle /\ CoreIdle /\ StrIdle
NextDump ==
  \/ Main /\ DumpOnly
  \/ ReadMinidump /\ DumpOnly
  \/ DumpThreadList /\ DumpOnly
  \/ DumpModuleList /\ DumpOnly
  \/ DumpMemoryList /\ DumpOnly
  \/ DumpException /\ DumpOnly
  \/ DumpAssertion /\ DumpOnly
  \/ DumpSystemInfo /\ DumpOnly
  \/ DumpMiscInfo /\ DumpOnly
  \/ DumpBreakpadInfo /\ DumpOnly
  \/ DumpCmdLine /\ DumpOnly
  \/ DumpEnviron /\ DumpOnly
  \/ DumpLsbRelease /\ DumpOnly
  \/ DumpProcStatus /\ DumpOnly
  \/ DumpCpuInfo /\ DumpOnly
  \/ Return /\ DumpOnly
SpecDump == InitDump /\ [][NextDump]_vars

InitSyms == DumpIdle /\ SymsInit /\ CoreIdle /\ StrIdle
NextSyms == SymsMain /\ SymsOnly
SpecSyms == InitSyms /\ [][NextSyms]_vars

InitCore == DumpIdle /\ SymsIdle /\ CoreInit /\ StrIdle
NextCore ==
  \/ CallInit /\ CoreOnly
  \/ CallIsPostMortem /\ CoreOnly
  \/ CallThreadsSuspend /\ CoreOnly
  \/ CallThreadsResume /\ CoreOnly
  \/ CallBuildProcPath /\ CoreOnly
  \/ CallGetMappingAbsolutePath /\ CoreOnly
  \/ CallGetThreadInfoByIndex /\ CoreOnly
SpecCore == InitCore /\ [][NextCore]_vars

\* One call of DumpStringArray or DumpRawStream; the program keeps running
\* while it has a step to take.
InitStr == DumpIdle /\ SymsIdle /\ CoreIdle /\ StrInit
NextStr ==
  \/ StrLoad /\ StrOnly
  \/ StrLoopStep /\ StrOnly
SpecStr == InitStr /\ [][NextStr]_vars /\ WF_vars(NextStr)

(***************************************************************************)
(*                               Claims                                    *)
(***************************************************************************)

IsPrefix(p, q) == Len(p) <= Len(q) /\ SubSeq(q, 1, Len(p)) = p

Exited == pc = "exit"

\* The calls that start a section: the header print, a typed accessor, a seek.
SectionCalls ==
  {"Print", "SeekToStreamType"} \cup {"Get" \o TypedStreams[i] : i \in 1..Len(TypedStreams)}

\* C1: minidump_dump exits 0 only if argc == 2, Read() succeeded and
\* GetThreadList, GetModuleList, GetMemoryList, GetSystemInfo and GetMiscInfo
\* each returned non-null; with any other argc it exits 1 and no Minidump is
\* constructed or read.
C1_ExitZeroOnlyIfRequiredStreams ==
  /\ exit_status = 0 =>
       /\ argc = 2
       /\ read_ok = "true"
       /\ \A s \in {"ThreadList", "ModuleList", "MemoryList", "SystemInfo",
                    "MiscInfo"} : stream[s] = "present"
  /\ argc # 2 =>
       /\ calls = <<>>
       /\ read_ok = "none"
       /\ Exited => exit_status = 1

C1_Witness ==
  /\ exit_status = 0
  /\ stream["Exception"] = "null"
  /\ stream["BreakpadInfo"] = "present"

\* C2: a failed Minidump::Read() is fatal: PrintMinidumpDump returns false at
\* once (exit status 1), nothing is printed, no typed accessor is called and
\* no Linux extension stream is sought or read.
C2_FailedReadIsFatal ==
  read_ok = "false" =>
    /\ Exited
    /\ exit_status = 1
    /\ calls = <<"Minidump", "Read">>
    /\ attempted = <<>>
    /\ \A s \in Range(TypedStreams) : stream[s] = "untried"
    /\ \A s \in Range(LinuxStreams) : linux[s] = "untried"
    /\ alloc = 0

C2_Witness == read_ok = "false" /\ argc = 2 /\ exit_status = 1

\* C3: after a successful Read() every section is attempted exactly once, in
\* the fixed order of SectionOrder, whatever failed before, and the result is
\* computed only after the last section.
C3_AllSectionsInOrder ==
  read_ok = "true" =>
    /\ IsPrefix(attempted, SectionOrder)
    /\ SelectSeq(calls, LAMBDA c : c \in SectionCalls)
         = [i \in 1..Len(attempted) |->
              IF attempted[i] = "Header" THEN "Print"
              ELSE IF attempted[i] \in Range(TypedStreams)
                THEN "Get" \o attempted[i]
              ELSE "SeekToStreamType"]
    /\ Len(attempted) < Len(SectionOrder) =>
         /\ pc = SectionOrder[Len(attempted) + 1]
         /\ exit_status = -1
    /\ pc \in {"return", "exit"} => attempted = SectionOrder
    /\ exit_status # -1 => attempted = SectionOrder /\ Exited

C3_Witness ==
  /\ Exited
  /\ attempted = SectionOrder
  /\ stream["ThreadList"] = "null"
  /\ stream["SystemInfo"] = "null"
  /\ linux["MD_LINUX_CMD_LINE"] = "readfail"
  /\ linux["MD_LINUX_CPU_INFO"] = "ok"

\* C4 as stated: for a minidump that reads and has a thread list, a missing
\* module list, memory list, exception, system info, misc info or breakpad
\* info stream does not make the dump report failure.
C4_Original ==
  (/\ Exited
   /\ read_ok = "true"
   /\ stream["ThreadList"] = "present"
   /\ \A s \in Range(LinuxStreams) : linux[s] # "readfail")
  => exit_status = 0

\* C4 as amended: only the exception, assertion and breakpad info streams are
\* optional.  A null module list, memory list, system info or misc info (or
\* thread list) makes the run exit 1; with those five present and no Linux
\* stream read failure the run exits 0 whatever the other three are.
C4_OnlyThreeOptional ==
  (Exited /\ read_ok = "true") =>
    /\ (\E s \in {"ThreadList", "ModuleList", "MemoryList", "SystemInfo",
                  "MiscInfo"} : stream[s] = "null") => exit_status = 1
    /\ ((\A s \in {"ThreadList", "ModuleList", "MemoryList", "SystemInfo",
                   "MiscInfo"} : stream[s] = "present")
        /\ (\A s \in Range(LinuxStreams) : linux[s] # "readfail"))
       => exit_status = 0

C4_Witness ==
  /\ Exited
  /\ exit_status = 0
  /\ stream["Exception"] = "null"
  /\ stream["Assertion"] = "null"
  /\ stream["BreakpadInfo"] = "null"

\* C5: a Linux extension stream that is present with non-zero length and whose
\* ReadBytes fails is counted as an error, so minidump_dump exits 1.
C5_ReadBytesFailureExitsOne ==
  (Exited /\ \E s \in Range(LinuxStreams) : linux[s] = "readfail")
  => exit_status = 1

\* C6: dump_syms calls WriteSymbolFile at most once and only for argc 2 or 3,
\* with debug file argv[1] and text file argv[1] (argc 2) or argv[2] (argc 3);
\* it exits 0 exactly when WriteSymbolFile was called and returned true, and 1
\* otherwise.
C6_DumpSymsMain ==
  /\ Len(ds_calls) <= 1
  /\ ds_exit = -1 => ds_calls = <<>>
  /\ ds_exit # -1 =>
       /\ ds_exit \in {0, 1}
       /\ Len(ds_calls) = 1 <=> ds_argc \in {2, 3}
       /\ ds_argc = 2 =>
            /\ ds_calls[1].debug_file = ds_argv[1]
            /\ ds_calls[1].text_file = ds_argv[1]
       /\ ds_argc = 3 =>
            /\ ds_calls[1].debug_file = ds_argv[1]
            /\ ds_calls[1].text_file = ds_argv[2]
       /\ ds_exit = 0 <=> (Len(ds_calls) = 1 /\ ds_calls[1].ret)

C6_Witness ==
  /\ ds_exit = 0
  /\ ds_argc = 3
  /\ ds_argv[1] = "app.debug"
  /\ ds_argv[2] = "app"

\* C7: BuildProcPath(path, pid, node) returns true and writes
\* "<procfs_path>/<node>", whatever pid is, when path and node are non-null,
\* node is non-empty and the result fits; it returns false for a NULL path, a
\* NULL node, an empty node, and when strlen(procfs_path) + 1 + strlen(node)
\* reaches NAME_MAX.
C7_BuildProcPath ==
  cd_last.op = "BuildProcPath" =>
    LET a == cd_last.out
        pp == cd_ctor.procfs_path
        total == Len(pp) + 1 + Len(a.node.str)
    IN /\ (~a.path_in.null /\ ~a.node.null /\ Len(a.node.str) > 0
             /\ total < NAME_MAX)
          => (cd_last.ret /\ a.path = Ptr(pp \o "/" \o a.node.str))
       /\ a.path_in.null => ~cd_last.ret
       /\ a.node.null => ~cd_last.ret
       /\ (~a.node.null /\ a.node.str = "") => ~cd_last.ret
       /\ total >= NAME_MAX => ~cd_last.ret
       /\ ~cd_last.ret => a.path = a.path_in

C7_Witness ==
  /\ cd_last.op = "BuildProcPath"
  /\ cd_last.ret
  /\ cd_last.out.path = Ptr("/procfs_copy/maps")
  /\ cd_last.out.pid = ParentPid

DumperState == <<cd_ctor, cd_core, cd_inited, cd_threads, cd_infos, cd_crash>>

C9_SuspendResumeNoOps ==
  [][/\ cd_last'.op = "IsPostMortem" => cd_last'.ret
     /\ cd_last'.op \in {"ThreadsSuspend", "ThreadsResume"} =>
          /\ cd_last'.ret
          /\ UNCHANGED <<cd_threads, cd_infos, cd_crash, cd_inited>>]_vars

C9_Witness ==
  /\ cd_inited
  /\ cd_last.op = "ThreadsResume"
  /\ cd_last.ret
  /\ Len(cd_threads) = 3
  /\ cd_crash.signal = SIGABRT

\* C10: after Init() succeeds on the core of a process of N threads whose
\* thread T raised signal S: crash_signal() = S, crash_thread() = the id of T,
\* there are at least N threads (exactly N without extra runtime threads), and
\* GetThreadInfoByIndex(i) succeeds for every i < N with ppid the parent of the
\* crashed process and a stack pointer GetStackInfo accepts.
C10_InitReportsCrash ==
  cd_inited =>
    /\ cd_crash.signal = cd_core.signal
    /\ cd_crash.thread = ThreadId(cd_core.crash_index)
    /\ Len(cd_threads) >= cd_core.n_threads
    /\ cd_core.extra = 0 => Len(cd_threads) = cd_core.n_threads
    /\ \A i \in 0..(cd_core.n_threads - 1) :
         LET r == GetThreadInfoByIndex(cd_infos, i) IN
           /\ r.ret
           /\ r.info.ppid = ParentPid
           /\ GetStackInfo(cd_core, r.info.stack_pointer)
    /\ (cd_last.op = "GetThreadInfoByIndex"
        /\ cd_last.out.index < cd_core.n_threads)
       => (cd_last.ret /\ cd_last.out.stack_ok
           /\ cd_last.out.info.ppid = ParentPid)

C10_Witness ==
  /\ cd_inited
  /\ cd_core.n_threads = 3
  /\ cd_core.crash_index = 1
  /\ cd_core.signal = SIGABRT
  /\ cd_crash.thread = ThreadId(1)
  /\ cd_last.op = "GetThreadInfoByIndex"
  /\ cd_last.out.index = 2
  /\ cd_last.ret

\* C11: the fault details depend on the signal: after a SIGABRT crash
\* crash_address() is 0; after a SIGSYS crash crash_address() is non-zero and
\* crash_exception_info() holds exactly 2 values; crash_signal() is the raised
\* signal in both cases.
C11_FaultDetailsBySignal ==
  cd_inited =>
    /\ cd_crash.signal = cd_core.signal
    /\ cd_core.signal = SIGABRT => cd_crash.address = 0
    /\ cd_core.signal = SIGSYS =>
         /\ cd_crash.address # 0
         /\ Len(cd_crash.exception_info) = 2

\* C12: the loop of DumpStringArray ends for every stream content: the buffer
\* has a NUL at index length, every turn moves the cursor on by
\* strlen + 1 >= 1, so there are at most length turns, and the call reaches
\* its end whatever the bytes are (no NUL, only NULs, NULs in a row).
C12_LoopTerminates ==
  /\ [](sa_pc \in {"loop", "done"} /\ sa_run.ret
         /\ sa_stream.kind = "DumpStringArray"
        => /\ sa_mem.bytes[sa_stream.length.lo + 1] = 0
           /\ sa_run.iter <= sa_run.cur
           /\ sa_run.cur <= sa_stream.length.lo + 1
           /\ ~U32Less(sa_stream.length, U32(sa_run.iter)))
  /\ [][sa_pc = "loop" /\ sa_pc' = "loop" => sa_run'.cur > sa_run.cur]_vars
  /\ <>(sa_pc \in {"done", "crashed"})

C12_Witness ==
  /\ sa_pc = "done"
  /\ sa_stream.kind = "DumpStringArray"
  /\ sa_stream.data = <<0, 0, 0>>
  /\ sa_run.iter = 3
  /\ sa_run.out = <<"String array stream", <<>>, <<>>, <<>>, <<>>>>

\* C13: a Linux stream that is absent or of length 0 is skipped silently:
\* LoadStreamContents returns false without allocating, without setting
\* *contents and without changing the error count, the dump function prints
\* nothing for it, and the exit status is not affected.
C13_AbsentOrEmptySkipped ==
  [][/\ \A found \in BOOLEAN, len \in 0..MaxLen, bytes_ok \in BOOLEAN :
          (~found \/ len = 0) =>
            LET r == LoadStreamContents(found, len, bytes_ok, errors) IN
              /\ ~r.ret
              /\ ~r.allocated
              /\ ~r.wrote_contents
              /\ r.errors = errors
     /\ \A s \in Range(LinuxStreams) :
          (linux[s] = "untried" /\ linux'[s] \in {"absent", "empty"}) =>
            /\ alloc' = alloc
            /\ errors' = errors
            /\ calls' = Append(calls, "SeekToStreamType")
            /\ exit_status' = exit_status
     /\ (pc = "return" /\ pc' = "exit") =>
          exit_status' = (IF errors = 0 THEN 0 ELSE 1)]_vars

C13_Witness ==
  /\ Exited
  /\ linux["MD_LINUX_CMD_LINE"] = "absent"
  /\ linux["MD_LINUX_ENVIRON"] = "empty"
  /\ \A s \in Range(LinuxStreams) : linux[s] \in {"absent", "empty"}
  /\ alloc = 0
  /\ errors = 0
  /\ exit_status = 0

\* C14: for every stream length L from 1 to 2^32-1 the buffer has L + 1 bytes,
\* so the L bytes ReadBytes stores, the terminator at index L and the later
\* strlen/printf reads all stay inside the buffer.
C14_BufferHoldsLengthPlusOne ==
  sa_mem.allocated =>
    /\ U32Less(sa_stream.length, sa_mem.size)
    /\ ~sa_mem.oob

====
